---- MODULE Spec2Model ----
(***************************************************************************)
(* Model of the CSV analysis engine of src/simple-server.js:                *)
(* parseFlexibleDate, parseCSVData, calculateOverlap, analyzeEmployees and  *)
(* the two routes that drive them.                                          *)
(*                                                                          *)
(* Text is a sequence of one-character strings.  A Date is its time value   *)
(* in HOURS since 1970-01-01T00:00Z (the code's milliseconds divided by     *)
(* 3,600,000: every date the parser builds is a whole hour), or NaN.        *)
(***************************************************************************)
EXTENDS Integers, Sequences, FiniteSets, TLC

VARIABLES
    route,          \* which caller runs the engine: "upload", "sample", "direct"
    tz,             \* local time zone of the process, hours east of UTC
    rows,           \* data: the rows csv-parse hands to the callback
    pc,             \* position of the request
    index,          \* forEach index inside parseCSVData (rows done so far)
    records,        \* parseCSVData: const records = []
    errors,         \* parseCSVData: const errors = []
    parsedData,     \* value the promise of parseCSVData resolved with
    clock,          \* wall clock, as last read by new Date()
    projectGroups,  \* analyzeEmployees: Map projectId -> records, insertion order
    pairMap,        \* analyzeEmployees: Map pairKey -> aggregate, insertion order
    cur,            \* loop position <<group, i, j>> of the pair loops
    call,           \* locals of the last calculateOverlap call and its caller
    result,         \* value analyzeEmployees returned
    response        \* what the route sent

vars == <<route, tz, rows, pc, index, records, errors, parsedData, clock,
          projectGroups, pairMap, cur, call, result, response>>

-----------------------------------------------------------------------------
(* Values that are not text, not a number, not a date.                      *)

\* A column the row does not have reads as undefined; no text equals it.
Undefined == <<"undefined">>

\* A number is [nan, n]: NaN, or the integer n.
NaN == [nan |-> TRUE, n |-> 0]
Num(k) == [nan |-> FALSE, n |-> k]

\* A Date object is [kind |-> "date", time]; an Invalid Date has a NaN time
\* value; null stands for the JavaScript null.
DateOf(t) == [kind |-> "date", time |-> t]
InvalidDate == [kind |-> "invalid", time |-> 0]
Null == [kind |-> "null", time |-> 0]

-----------------------------------------------------------------------------
(* Characters and text.                                                     *)

Digits == {"0", "1", "2", "3", "4", "5", "6", "7", "8", "9"}

DigitVal(c) ==
    CASE c = "0" -> 0 [] c = "1" -> 1 [] c = "2" -> 2 [] c = "3" -> 3
      [] c = "4" -> 4 [] c = "5" -> 5 [] c = "6" -> 6 [] c = "7" -> 7
      [] c = "8" -> 8 [] c = "9" -> 9

IsText(v) == v # Undefined

\* The value of a run of decimal digits (0 for the empty run).
RECURSIVE DecimalValue(_)
DecimalValue(s) ==
    IF s = <<>> THEN 0
    ELSE 10 * DecimalValue(SubSeq(s, 1, Len(s) - 1)) + DigitVal(s[Len(s)])

AllDigits(s) == \A k \in 1..Len(s) : s[k] \in Digits

\* String.prototype.trim
RECURSIVE TrimLeft(_)
TrimLeft(s) ==
    IF s # <<>> /\ s[1] = " " THEN TrimLeft(Tail(s)) ELSE s

RECURSIVE TrimRight(_)
TrimRight(s) ==
    IF s # <<>> /\ s[Len(s)] = " " THEN TrimRight(SubSeq(s, 1, Len(s) - 1)) ELSE s

Trim(s) == TrimRight(TrimLeft(s))

\* String.prototype.toLowerCase, on the letters the inputs use.
LowerChar(c) ==
    CASE c = "N" -> "n" [] c = "U" -> "u" [] c = "L" -> "l" [] OTHER -> c

ToLowerCase(s) == [k \in 1..Len(s) |-> LowerChar(s[k])]

\* String.prototype.split(sep) for a one-character separator.
RECURSIVE Split(_, _)
Split(s, sep) ==
    IF \E k \in 1..Len(s) : s[k] = sep
    THEN LET k == CHOOSE n \in 1..Len(s) :
                      s[n] = sep /\ \A m \in 1..(n - 1) : s[m] # sep
         IN  <<SubSeq(s, 1, k - 1)>> \o Split(SubSeq(s, k + 1, Len(s)), sep)
    ELSE <<s>>

\* The longest prefix of s made of decimal digits.
RECURSIVE DigitPrefix(_)
DigitPrefix(s) ==
    IF s # <<>> /\ s[1] \in Digits THEN <<s[1]>> \o DigitPrefix(Tail(s)) ELSE <<>>

\* parseInt(x): leading white space skipped, an optional sign, then the longest
\* run of decimal digits; NaN when there is none (undefined reads as the text
\* "undefined").  The inputs carry no 0x prefix.
ParseInt(x) ==
    IF ~IsText(x) THEN NaN
    ELSE LET s == TrimLeft(x)
             neg == s # <<>> /\ s[1] = "-"
             body == IF s # <<>> /\ s[1] \in {"-", "+"} THEN Tail(s) ELSE s
             ds == DigitPrefix(body)
         IN  IF ds = <<>> THEN NaN
             ELSE IF neg THEN Num(0 - DecimalValue(ds)) ELSE Num(DecimalValue(ds))

-----------------------------------------------------------------------------
(* Calendar arithmetic of the Date object (ECMAScript MakeDay, YearFromTime).*)

HoursPerDay == 24

\* Days from 1970-01-01 to the civil date y-m-d, m in 1..12.
DaysFromCivil(y, m, d) ==
    LET yy == IF m <= 2 THEN y - 1 ELSE y
        era == yy \div 400
        yoe == yy - era * 400
        mp == IF m > 2 THEN m - 3 ELSE m + 9
        doy == (153 * mp + 2) \div 5 + d - 1
        doe == yoe * 365 + yoe \div 4 - yoe \div 100 + doy
    IN  era * 146097 + doe - 719468

\* MakeDay(year, month, date) with a 0-based month: a month outside 0..11 and
\* a day outside the month roll over into the neighbouring months and years.
MakeDay(year, month0, date) ==
    DaysFromCivil(year + (month0 \div 12), (month0 % 12) + 1, 1) + date - 1

\* The civil year of a day number.
YearFromDays(z) ==
    LET zz == z + 719468
        era == zz \div 146097
        doe == zz - era * 146097
        yoe == (doe - doe \div 1460 + doe \div 36524 - doe \div 146096) \div 365
        doy == doe - (365 * yoe + yoe \div 4 - yoe \div 100)
        mp == (5 * doy + 2) \div 153
        m == IF mp < 10 THEN mp + 3 ELSE mp - 9
    IN  yoe + era * 400 + (IF m <= 2 THEN 1 ELSE 0)

\* TimeClip: a time value beyond 8.64e15 ms (100,000,000 days) is NaN; the
\* year is tested first so that the day number stays a machine integer.
InRange(year) == year >= -271821 /\ year <= 275760

\* new Date(year, month, day): local midnight; a year 0..99 means 1900+year.
NewDateLocal(year, month0, day, zone) ==
    LET y == IF year >= 0 /\ year <= 99 THEN 1900 + year ELSE year
    IN  IF ~InRange(y) THEN InvalidDate
        ELSE DateOf(MakeDay(y, month0, day) * HoursPerDay - zone)

\* Date.prototype.getTime is NaN exactly for an Invalid Date.
IsNaNTime(date) == date.kind = "invalid"

\* Date.prototype.getFullYear: the year in local time.
GetFullYear(date, zone) == YearFromDays((date.time + zone) \div HoursPerDay)

-----------------------------------------------------------------------------
(* new Date(dateStr): the date-string parser of the JavaScript engine the   *)
(* server runs on (Node.js, V8: first the ES5 ISO form, then the legacy     *)
(* parser).  Modelled on text made of digit groups joined by one of / - .   *)
(* and on text with no digit at all; other text is not among the inputs.    *)

Separators == {"/", "-", "."}

\* The digit groups of s, cut at every separator.
RECURSIVE Groups(_)
Groups(s) ==
    IF \E k \in 1..Len(s) : s[k] \in Separators
    THEN LET k == CHOOSE n \in 1..Len(s) :
                      s[n] \in Separators /\ \A m \in 1..(n - 1) : s[m] \notin Separators
         IN  <<SubSeq(s, 1, k - 1)>> \o Groups(SubSeq(s, k + 1, Len(s)))
    ELSE <<s>>

IsMonth(x) == x >= 1 /\ x <= 12
IsDay(x) == x >= 1 /\ x <= 31

\* YYYY-MM-DD with a month 1..12 and a day 1..31: the ES5 form, read as UTC.
IsIsoDate(s) ==
    /\ Len(s) = 10
    /\ s[5] = "-" /\ s[8] = "-"
    /\ AllDigits(SubSeq(s, 1, 4)) /\ AllDigits(SubSeq(s, 6, 7)) /\ AllDigits(SubSeq(s, 9, 10))
    /\ IsMonth(DecimalValue(SubSeq(s, 6, 7)))
    /\ IsDay(DecimalValue(SubSeq(s, 9, 10)))

\* The legacy parser's day composer: up to three numbers, missing ones 1;
\* year-month-day when the first number cannot be a day, else month-day-year;
\* a year below 100 is moved into 1950..2049; the month must be 1..12 and the
\* day 1..31 (a day past the end of the month rolls over); local time.
LegacyDate(comp, zone) ==
    LET c == [k \in 1..3 |-> IF k <= Len(comp) THEN comp[k] ELSE 1]
        ymd == ~IsDay(c[1])
        year0 == IF ymd THEN c[1] ELSE c[3]
        month == IF ymd THEN c[2] ELSE c[1]
        day == IF ymd THEN c[3] ELSE c[2]
        year == IF year0 >= 0 /\ year0 <= 49 THEN year0 + 2000
                ELSE IF year0 >= 50 /\ year0 <= 99 THEN year0 + 1900
                ELSE year0
    IN  IF IsMonth(month) /\ IsDay(day) /\ InRange(year)
        THEN DateOf(MakeDay(year, month - 1, day) * HoursPerDay - zone)
        ELSE InvalidDate

NewDateFromString(dateStr, zone) ==
    LET s == Trim(dateStr)
        gs == Groups(s)
    IN  IF IsIsoDate(s)
        THEN DateOf(MakeDay(DecimalValue(SubSeq(s, 1, 4)),
                            DecimalValue(SubSeq(s, 6, 7)) - 1,
                            DecimalValue(SubSeq(s, 9, 10))) * HoursPerDay)
        ELSE IF /\ Len(gs) <= 3
                /\ \A k \in 1..Len(gs) : gs[k] # <<>> /\ AllDigits(gs[k]) /\ Len(gs[k]) <= 9
        THEN LegacyDate([k \in 1..Len(gs) |-> DecimalValue(gs[k])], zone)
        ELSE InvalidDate

-----------------------------------------------------------------------------
(* parseFlexibleDate                                                        *)

\* /^\d{8}$/
IsEightDigits(s) == Len(s) = 8 /\ AllDigits(s)

\* /^\d{1,2}SEP\d{1,2}SEP\d{4}$/
IsDayMonthYear(s, sep) ==
    LET parts == Split(s, sep)
    IN  /\ Len(parts) = 3
        /\ \A k \in 1..3 : AllDigits(parts[k])
        /\ Len(parts[1]) \in 1..2 /\ Len(parts[2]) \in 1..2 /\ Len(parts[3]) = 4

\* new Date(parseInt(parts[y]), parseInt(parts[m]) - 1, parseInt(parts[d]))
DateFromParts(parts, y, m, d, zone) ==
    NewDateLocal(ParseInt(parts[y]).n, ParseInt(parts[m]).n - 1, ParseInt(parts[d]).n, zone)

\* The slash branch: day/month/year is kept when its year is still the year
\* written (the only thing the code compares), else month/day/year.
SlashDate(cleanStr, zone) ==
    LET parts == Split(cleanStr, "/")
        european == DateFromParts(parts, 3, 2, 1, zone)
        us == DateFromParts(parts, 3, 1, 2, zone)
    IN  IF ~IsNaNTime(european) /\ GetFullYear(european, zone) = DecimalValue(parts[3])
        THEN european
        ELSE IF ~IsNaNTime(us) THEN us
        ELSE Null

\* The branches after the Date constructor failed: each returns its date when
\* valid and otherwise falls through to the next.
SpecificFormats(cleanStr, zone) ==
    LET eight == IF IsEightDigits(cleanStr)
                 THEN NewDateLocal(ParseInt(SubSeq(cleanStr, 1, 4)).n,
                                   ParseInt(SubSeq(cleanStr, 5, 6)).n - 1,
                                   ParseInt(SubSeq(cleanStr, 7, 8)).n, zone)
                 ELSE InvalidDate
        slash == IF IsDayMonthYear(cleanStr, "/") THEN SlashDate(cleanStr, zone) ELSE Null
        dot == IF IsDayMonthYear(cleanStr, ".")
               THEN DateFromParts(Split(cleanStr, "."), 3, 2, 1, zone) ELSE InvalidDate
        dash == IF IsDayMonthYear(cleanStr, "-") /\ Len(Split(cleanStr, "-")[3]) = 4
                THEN DateFromParts(Split(cleanStr, "-"), 3, 2, 1, zone) ELSE InvalidDate
    IN  IF ~IsNaNTime(eight) THEN eight
        ELSE IF slash # Null THEN slash
        ELSE IF ~IsNaNTime(dot) THEN dot
        ELSE IF ~IsNaNTime(dash) THEN dash
        ELSE Null

\* !dateStr || dateStr.toLowerCase() === 'null' || dateStr.trim() === ''
IsNoDate(dateStr) ==
    \/ ~IsText(dateStr)
    \/ dateStr = <<>>
    \/ ToLowerCase(dateStr) = <<"n", "u", "l", "l">>
    \/ Trim(dateStr) = <<>>

parseFlexibleDate(dateStr, zone) ==
    IF IsNoDate(dateStr) THEN Null
    ELSE LET parsedDate == NewDateFromString(dateStr, zone)
         IN  IF ~IsNaNTime(parsedDate) THEN parsedDate
             ELSE SpecificFormats(Trim(dateStr), zone)

-----------------------------------------------------------------------------
(* Inputs: the rows csv-parse produces with columns: true and trim: true,   *)
(* each a mapping from the header's column names to trimmed text.           *)

\* SAMPLE_CSV, tokenized.
SAMPLE_CSV ==
    <<[EmpID |-> <<"1", "4", "3">>, ProjectID |-> <<"1", "2">>,
       DateFrom |-> <<"2", "0", "1", "3", "-", "1", "1", "-", "0", "1">>,
       DateTo |-> <<"2", "0", "1", "4", "-", "0", "1", "-", "0", "5">>],
      [EmpID |-> <<"2", "1", "8">>, ProjectID |-> <<"1", "0">>,
       DateFrom |-> <<"2", "0", "1", "2", "-", "0", "5", "-", "1", "6">>,
       DateTo |-> <<"N", "U", "L", "L">>],
      [EmpID |-> <<"2", "1", "8">>, ProjectID |-> <<"1", "0">>,
       DateFrom |-> <<"2", "0", "1", "2", "-", "0", "5", "-", "1", "6">>,
       DateTo |-> <<"2", "0", "1", "2", "-", "0", "9", "-", "0", "5">>],
      [EmpID |-> <<"1", "4", "3">>, ProjectID |-> <<"1", "0">>,
       DateFrom |-> <<"2", "0", "0", "9", "-", "0", "1", "-", "0", "1">>,
       DateTo |-> <<"2", "0", "1", "1", "-", "0", "4", "-", "2", "7">>],
      [EmpID |-> <<"1", "4", "3">>, ProjectID |-> <<"1", "1">>,
       DateFrom |-> <<"2", "0", "1", "4", "-", "0", "1", "-", "0", "5">>,
       DateTo |-> <<"2", "0", "1", "4", "-", "1", "1", "-", "0", "9">>],
      [EmpID |-> <<"2", "1", "8">>, ProjectID |-> <<"1", "2">>,
       DateFrom |-> <<"2", "0", "1", "4", "-", "1", "1", "-", "0", "9">>,
       DateTo |-> <<"2", "0", "1", "5", "-", "0", "1", "-", "0", "5">>],
      [EmpID |-> <<"1", "4", "3">>, ProjectID |-> <<"1", "0">>,
       DateFrom |-> <<"2", "0", "1", "2", "-", "0", "9", "-", "0", "5">>,
       DateTo |-> <<"2", "0", "1", "3", "-", "1", "1", "-", "0", "1">>],
      [EmpID |-> <<"2", "1", "8">>, ProjectID |-> <<"1", "1">>,
       DateFrom |-> <<"2", "0", "1", "4", "-", "0", "1", "-", "0", "5">>,
       DateTo |-> <<"2", "0", "1", "4", "-", "1", "1", "-", "0", "9">>]>>

\* Rows an uploaded file may hold under the header EmpID,ProjectID,DateFrom,DateTo.
RowPool ==
    {[EmpID |-> <<"1", "4", "3">>, ProjectID |-> <<"1", "0">>,
       DateFrom |-> <<"2", "0", "1", "3", "-", "1", "1", "-", "0", "1">>,
       DateTo |-> <<"2", "0", "1", "4", "-", "0", "1", "-", "0", "5">>],
      [EmpID |-> <<"2", "1", "8">>, ProjectID |-> <<"1", "0">>,
       DateFrom |-> <<"2", "0", "1", "2", "-", "0", "9", "-", "0", "5">>,
       DateTo |-> <<"2", "0", "1", "3", "-", "1", "1", "-", "0", "1">>],
      [EmpID |-> <<"2", "1", "8">>, ProjectID |-> <<"1", "0">>,
       DateFrom |-> <<"2", "0", "1", "3", "-", "1", "2", "-", "3", "0">>,
       DateTo |-> <<"N", "U", "L", "L">>],
      [EmpID |-> <<"2", "1", "8">>, ProjectID |-> <<"1", "0">>,
       DateFrom |-> <<"3", "1", "/", "0", "4", "/", "2", "0", "2", "0">>,
       DateTo |-> <<>>],
      [EmpID |-> <<"1", "2", "a", "b", "c">>, ProjectID |-> <<"-", "5">>,
       DateFrom |-> <<"2", "0", "1", "4", "0", "1", "0", "5">>,
       DateTo |-> <<"n", "o", "t", "-", "a", "-", "d", "a", "t", "e">>],
      [EmpID |-> <<"x">>, ProjectID |-> <<"1", "0">>,
       DateFrom |-> <<"2", "0", "1", "4", "-", "0", "1", "-", "0", "5">>,
       DateTo |-> <<"N", "U", "L", "L">>]}

\* An upload written with the other accepted column names; its third and
\* fourth rows have no start date and an unreadable one, its last row an
\* unreadable end date.
AliasUpload ==
    <<[EmployeeID |-> <<"1", "4", "3">>, ProjectId |-> <<"1", "0">>,
       StartDate |-> <<"1", "3", ".", "0", "1", ".", "2", "0", "1", "4">>,
       EndDate |-> <<"0", "5", "-", "0", "1", "-", "2", "0", "1", "4">>],
      [EmployeeID |-> <<"0">>, ProjectId |-> <<"1", "0">>,
       StartDate |-> <<"0", "1", "/", "0", "5", "/", "2", "0", "1", "4">>,
       EndDate |-> <<"n", "u", "l", "l">>],
      [EmployeeID |-> <<"7">>, ProjectId |-> <<"1", "0">>,
       StartDate |-> <<"N", "U", "L", "L">>,
       EndDate |-> <<"2", "0", "1", "4", "-", "0", "1", "-", "0", "5">>],
      [EmployeeID |-> <<"5">>, ProjectId |-> <<"1", "0">>,
       StartDate |-> <<"n", "o", "t", "-", "a", "-", "d", "a", "t", "e">>,
       EndDate |-> <<"2", "0", "1", "4", "-", "0", "1", "-", "0", "5">>],
      [EmployeeID |-> <<"9">>, ProjectId |-> <<"1", "0">>,
       StartDate |-> <<"2", "0", "1", "4", "-", "0", "1", "-", "0", "5">>,
       EndDate |-> <<"n", "o", "t", "-", "a", "-", "d", "a", "t", "e">>]>>

\* Longest upload drawn from RowPool.
MaxRows == 3

\* Hours the wall clock may advance during one request.
MaxTicks == 2

\* All sequences over S of length at most n.
RECURSIVE SeqsUpTo(_, _)
SeqsUpTo(S, n) ==
    IF n = 0 THEN {<<>>}
    ELSE LET shorter == SeqsUpTo(S, n - 1)
         IN  shorter \cup {Append(q, x) : q \in {t \in shorter : Len(t) = n - 1}, x \in S}

Uploads == SeqsUpTo(RowPool, MaxRows) \cup {SAMPLE_CSV, AliasUpload}

\* Time zones the server may run in: UTC and UTC+2 (a fixed offset; daylight
\* saving changes are left out).
TimeZones == {0, 2}

\* The wall clock when a request starts: one hour before 2025-01-01T00:00Z.
ClockStart == DaysFromCivil(2025, 1, 1) * HoursPerDay - 1

-----------------------------------------------------------------------------
(* parseCSVData: the callback body for one row.                             *)

Get(row, name) == IF name \in DOMAIN row THEN row[name] ELSE Undefined

Truthy(text) == IsText(text) /\ text # <<>>

\* a || b || c
Or3(a, b, c) == IF Truthy(a) THEN a ELSE IF Truthy(b) THEN b ELSE c

RowError(rowNumber, message, text) ==
    [row |-> rowNumber, message |-> message, text |-> text]

\* Variant: an end date that is written but cannot be read rejects the row.
RowOutcomeStrictEnd(row, index_, zone) ==
    LET empId == ParseInt(Or3(Get(row, "EmpID"), Get(row, "empId"), Get(row, "EmployeeID")))
        projectId == ParseInt(Or3(Get(row, "ProjectID"), Get(row, "projectId"), Get(row, "ProjectId")))
        dateFromStr == Or3(Get(row, "DateFrom"), Get(row, "dateFrom"), Get(row, "StartDate"))
        dateToStr == Or3(Get(row, "DateTo"), Get(row, "dateTo"), Get(row, "EndDate"))
        dateFrom == parseFlexibleDate(dateFromStr, zone)
        dateTo == parseFlexibleDate(dateToStr, zone)
    IN  IF empId.nan \/ projectId.nan
        THEN [ok |-> FALSE,
              error |-> RowError(index_ + 1, "Invalid employee ID or project ID", <<>>)]
        ELSE IF dateFrom = Null
        THEN [ok |-> FALSE,
              error |-> RowError(index_ + 1, "Invalid date format for DateFrom", dateFromStr)]
        ELSE IF dateTo = Null /\ ~IsNoDate(dateToStr)
        THEN [ok |-> FALSE,
              error |-> RowError(index_ + 1, "Invalid date format for DateTo", dateToStr)]
        ELSE [ok |-> TRUE,
              record |-> [empId |-> empId.n, projectId |-> projectId.n,
                          dateFrom |-> dateFrom, dateTo |-> dateTo]]

\* What one forEach callback does with row number index + 1: the record it
\* pushes, or the error string it pushes.
RowOutcome(row, index_, zone) ==
    LET empId == ParseInt(Or3(Get(row, "EmpID"), Get(row, "empId"), Get(row, "EmployeeID")))
        projectId == ParseInt(Or3(Get(row, "ProjectID"), Get(row, "projectId"), Get(row, "ProjectId")))
        dateFromStr == Or3(Get(row, "DateFrom"), Get(row, "dateFrom"), Get(row, "StartDate"))
        dateToStr == Or3(Get(row, "DateTo"), Get(row, "dateTo"), Get(row, "EndDate"))
        dateFrom == parseFlexibleDate(dateFromStr, zone)
        dateTo == parseFlexibleDate(dateToStr, zone)
    IN  IF empId.nan \/ projectId.nan
        THEN [ok |-> FALSE,
              error |-> RowError(index_ + 1, "Invalid employee ID or project ID", <<>>)]
        ELSE IF dateFrom = Null
        THEN [ok |-> FALSE,
              error |-> RowError(index_ + 1, "Invalid date format for DateFrom", dateFromStr)]
        ELSE [ok |-> TRUE,
              record |-> [empId |-> empId.n, projectId |-> projectId.n,
                          dateFrom |-> dateFrom, dateTo |-> dateTo]]

-----------------------------------------------------------------------------
(* calculateOverlap                                                         *)

Max(a, b) == IF a >= b THEN a ELSE b
Min(a, b) == IF a <= b THEN a ELSE b

\* Math.ceil(x / d) for d > 0.
CeilDiv(x, d) == 0 - ((0 - x) \div d)

\* Variant: the comparison of the overlap's start and end is left out.
calculateOverlapUnguarded(start1, actualEnd1, start2, actualEnd2) ==
    CeilDiv(Min(actualEnd1, actualEnd2) - Max(start1, start2), HoursPerDay) + 1

\* Variant: the day count leaves out the closing day.
calculateOverlapExclusive(start1, actualEnd1, start2, actualEnd2) ==
    LET overlapStart == Max(start1, start2)
        overlapEnd == Min(actualEnd1, actualEnd2)
    IN  IF overlapStart <= overlapEnd
        THEN CeilDiv(overlapEnd - overlapStart, HoursPerDay)
        ELSE 0

\* calculateOverlap once actualEnd1 and actualEnd2 are fixed (times in hours).
calculateOverlap(start1, actualEnd1, start2, actualEnd2) ==
    LET overlapStart == Max(start1, start2)
        overlapEnd == Min(actualEnd1, actualEnd2)
    IN  IF overlapStart <= overlapEnd
        THEN CeilDiv(overlapEnd - overlapStart, HoursPerDay) + 1
        ELSE 0

-----------------------------------------------------------------------------
(* analyzeEmployees                                                         *)

\* projectGroups after the grouping loop: one entry per project id, in the
\* order the ids first appear, each holding its records in input order.
RECURSIVE GroupByProject(_, _)
GroupByProject(data, groups) ==
    IF data = <<>> THEN groups
    ELSE LET record == Head(data)
             at == {k \in 1..Len(groups) : groups[k].projectId = record.projectId}
         IN  IF at = {}
             THEN GroupByProject(Tail(data),
                      Append(groups, [projectId |-> record.projectId,
                                      employees |-> <<record>>]))
             ELSE LET k == CHOOSE n \in at : TRUE
                  IN  GroupByProject(Tail(data),
                          [groups EXCEPT ![k].employees = Append(@, record)])

\* The loop position after <<g, i, j>> that names a pair i < j of a group, or
\* <<Len(groups) + 1, 0, 0>> when the loops are over.
RECURSIVE NextPair(_, _, _, _)
NextPair(groups, g, i, j) ==
    IF g > Len(groups) THEN <<Len(groups) + 1, 0, 0>>
    ELSE LET n == Len(groups[g].employees)
         IN  IF j + 1 <= n /\ i >= 1 /\ i < j + 1 THEN <<g, i, j + 1>>
             ELSE IF i + 2 <= n THEN <<g, i + 1, i + 2>>
             ELSE NextPair(groups, g + 1, 0, 0)

\* `${Math.min(a, b)}-${Math.max(a, b)}`: the two numbers joined by a hyphen
\* (unambiguous, since each number is a sign followed by digits).
PairKey(a, b) == <<Min(a, b), "-", Max(a, b)>>

\* The aggregate pairMap.set stores when the key is new.
NewPair(a, b) ==
    [key |-> PairKey(a, b), emp1 |-> Min(a, b), emp2 |-> Max(a, b),
     totalDays |-> 0, commonProjects |-> <<>>]

\* Variant: the total is assigned, not added to.
AddOverlapAssigningTotal(map, a, b, projectId, overlap, overlapStart, overlapEnd) ==
    LET key == PairKey(a, b)
        m == IF \E k \in 1..Len(map) : map[k].key = key
             THEN map ELSE Append(map, NewPair(a, b))
        k == CHOOSE n \in 1..Len(m) : m[n].key = key
    IN  [m EXCEPT ![k].totalDays = overlap,
                  ![k].commonProjects =
                      Append(@, [projectId |-> projectId, overlapDays |-> overlap,
                                 dateFrom |-> overlapStart, dateTo |-> overlapEnd])]

\* Variant: only the latest detail entry is kept.
AddOverlapKeepingLatestEntry(map, a, b, projectId, overlap, overlapStart, overlapEnd) ==
    LET key == PairKey(a, b)
        m == IF \E k \in 1..Len(map) : map[k].key = key
             THEN map ELSE Append(map, NewPair(a, b))
        k == CHOOSE n \in 1..Len(m) : m[n].key = key
    IN  [m EXCEPT ![k].totalDays = @ + overlap,
                  ![k].commonProjects =
                      <<[projectId |-> projectId, overlapDays |-> overlap,
                         dateFrom |-> overlapStart, dateTo |-> overlapEnd]>>]

\* pairMap after one pair with a positive overlap.
AddOverlap(map, a, b, projectId, overlap, overlapStart, overlapEnd) ==
    LET key == PairKey(a, b)
        m == IF \E k \in 1..Len(map) : map[k].key = key
             THEN map ELSE Append(map, NewPair(a, b))
        k == CHOOSE n \in 1..Len(m) : m[n].key = key
    IN  [m EXCEPT ![k].totalDays = @ + overlap,
                  ![k].commonProjects =
                      Append(@, [projectId |-> projectId, overlapDays |-> overlap,
                                 dateFrom |-> overlapStart, dateTo |-> overlapEnd])]

\* Variant: the pairs are left in the order they were found.
SortForgotten(pairs) == pairs

\* Array.prototype.sort((a, b) => b.totalDays - a.totalDays): stable.
RECURSIVE SortByTotalDays(_)
SortByTotalDays(pairs) ==
    IF pairs = <<>> THEN <<>>
    ELSE LET rest == SortByTotalDays(SubSeq(pairs, 1, Len(pairs) - 1))
             last == pairs[Len(pairs)]
             before == {k \in 1..Len(rest) : rest[k].totalDays >= last.totalDays}
             cut == IF before = {} THEN 0
                    ELSE CHOOSE k \in before : \A m \in before : m <= k
         IN  SubSeq(rest, 1, cut) \o <<last>> \o SubSeq(rest, cut + 1, Len(rest))

\* Variant: the headline needs a second pair.
TopPairNeedingTwo(allPairs) ==
    IF Len(allPairs) > 1
    THEN [text |-> "Employees {emp1} and {emp2} worked together for {totalDays} days",
          emp1 |-> allPairs[1].emp1, emp2 |-> allPairs[1].emp2,
          totalDays |-> allPairs[1].totalDays]
    ELSE [text |-> "No employee pairs found that worked together",
          emp1 |-> 0, emp2 |-> 0, totalDays |-> 0]

TopPair(allPairs) ==
    IF Len(allPairs) > 0
    THEN [text |-> "Employees {emp1} and {emp2} worked together for {totalDays} days",
          emp1 |-> allPairs[1].emp1, emp2 |-> allPairs[1].emp2,
          totalDays |-> allPairs[1].totalDays]
    ELSE [text |-> "No employee pairs found that worked together",
          emp1 |-> 0, emp2 |-> 0, totalDays |-> 0]

\* The object analyzeEmployees returns.
Analysis(data, map) ==
    LET allPairs == SortByTotalDays(map)
    IN  [topPair |-> TopPair(allPairs),
         allPairs |-> allPairs,
         summary |-> [totalRecords |-> Len(data),
                      uniqueEmployees |-> Cardinality({data[k].empId : k \in 1..Len(data)}),
                      uniqueProjects |-> Cardinality({data[k].projectId : k \in 1..Len(data)}),
                      employeePairs |-> Len(allPairs)],
         processedData |-> data,
         errors |-> <<>>]

-----------------------------------------------------------------------------
(* The state machine.                                                       *)

NoCall ==
    [made |-> FALSE, projectId |-> 0, emp1 |-> 0, emp2 |-> 0,
     start1 |-> 0, start2 |-> 0, end1 |-> Null, end2 |-> Null,
     actualEnd1 |-> 0, actualEnd2 |-> 0, overlap |-> 0]

NoResult == [returned |-> FALSE]
NoResponse == [status |-> 0]

Start(r, z, data, parsed) ==
    /\ route = r
    /\ tz = z
    /\ rows = data
    /\ index = 0
    /\ records = <<>>
    /\ errors = <<>>
    /\ parsedData = parsed
    /\ clock = ClockStart
    /\ projectGroups = <<>>
    /\ pairMap = <<>>
    /\ cur = <<0, 0, 0>>
    /\ call = NoCall
    /\ result = NoResult
    /\ response = NoResponse

\* POST /api/csv/upload with any file, or POST /api/csv/analyze-sample.
Init ==
    /\ pc = "parse"
    /\ \E z \in TimeZones :
          \/ \E data \in Uploads : Start("upload", z, data, <<>>)
          \/ Start("sample", z, SAMPLE_CSV, <<>>)

\* Variant: once a row was rejected, the rows after it are dropped.
ParseRowGivingUp ==
    /\ pc = "parse"
    /\ index < Len(rows)
    /\ LET out == RowOutcome(rows[index + 1], index, tz)
       IN  /\ records' = IF out.ok /\ errors = <<>> THEN Append(records, out.record)
                         ELSE records
           /\ errors' = IF out.ok \/ errors # <<>> THEN errors
                        ELSE Append(errors, out.error)
    /\ index' = index + 1
    /\ UNCHANGED <<route, tz, rows, pc, parsedData, clock, projectGroups, pairMap,
                   cur, call, result, response>>

\* data.forEach: the callback for the next row.
ParseRow ==
    /\ pc = "parse"
    /\ index < Len(rows)
    /\ LET out == RowOutcome(rows[index + 1], index, tz)
       IN  /\ records' = IF out.ok THEN Append(records, out.record) ELSE records
           /\ errors' = IF out.ok THEN errors ELSE Append(errors, out.error)
    /\ index' = index + 1
    /\ UNCHANGED <<route, tz, rows, pc, parsedData, clock, projectGroups, pairMap,
                   cur, call, result, response>>

\* After the last row: the errors are logged and the promise resolves with
\* the records alone.
Resolve ==
    /\ pc = "parse"
    /\ index = Len(rows)
    /\ parsedData' = records
    /\ pc' = "parsed"
    /\ UNCHANGED <<route, tz, rows, index, records, errors, clock, projectGroups,
                   pairMap, cur, call, result, response>>

\* The upload route answers 400 when no record is valid.
RejectEmpty ==
    /\ pc = "parsed"
    /\ route = "upload"
    /\ Len(parsedData) = 0
    /\ response' = [status |-> 400, success |-> FALSE,
                    error |-> "No valid data found in CSV"]
    /\ pc' = "done"
    /\ UNCHANGED <<route, tz, rows, index, records, errors, parsedData, clock,
                   projectGroups, pairMap, cur, call, result>>

\* analyzeEmployees(parsedData) is entered: the records are grouped by project.
GroupRecords ==
    /\ pc = "parsed"
    /\ ~(route = "upload" /\ Len(parsedData) = 0)
    /\ projectGroups' = GroupByProject(parsedData, <<>>)
    /\ pairMap' = <<>>
    /\ cur' = NextPair(projectGroups', 1, 0, 0)
    /\ pc' = "pairs"
    /\ UNCHANGED <<route, tz, rows, index, records, errors, parsedData, clock,
                   call, result, response>>

\* One pass of the inner loop, for employees[i] and employees[j] of a group.
\* Every new Date() reads the wall clock, which never runs backwards.
PairStep ==
    /\ pc = "pairs"
    /\ cur[1] <= Len(projectGroups)
    /\ LET group == projectGroups[cur[1]]
           emp1 == group.employees[cur[2]]
           emp2 == group.employees[cur[3]]
           latest == ClockStart + MaxTicks
       IN  \E n1 \in clock..latest :
           \E n2 \in n1..latest :
           \E n3 \in n2..latest :
           \E n4 \in n3..latest :
              \* a read that does not happen leaves the clock where it was
              /\ emp1.dateTo # Null => n1 = clock
              /\ emp2.dateTo # Null => n2 = n1
              /\ LET actualEnd1 == IF emp1.dateTo # Null THEN emp1.dateTo.time ELSE n1
                     actualEnd2 == IF emp2.dateTo # Null THEN emp2.dateTo.time ELSE n2
                     overlap == calculateOverlap(emp1.dateFrom.time, actualEnd1,
                                                 emp2.dateFrom.time, actualEnd2)
                     overlapStart == Max(emp1.dateFrom.time, emp2.dateFrom.time)
                     overlapEnd == Min(IF emp1.dateTo # Null THEN emp1.dateTo.time ELSE n3,
                                       IF emp2.dateTo # Null THEN emp2.dateTo.time ELSE n4)
                 IN  /\ call' = [made |-> TRUE, projectId |-> group.projectId,
                                 emp1 |-> emp1.empId, emp2 |-> emp2.empId,
                                 start1 |-> emp1.dateFrom.time, start2 |-> emp2.dateFrom.time,
                                 end1 |-> emp1.dateTo, end2 |-> emp2.dateTo,
                                 actualEnd1 |-> actualEnd1, actualEnd2 |-> actualEnd2,
                                 overlap |-> overlap]
                     /\ IF overlap > 0
                        THEN /\ (emp1.dateTo # Null => n3 = n2)
                             /\ (emp2.dateTo # Null => n4 = n3)
                             /\ pairMap' = AddOverlap(pairMap, emp1.empId, emp2.empId,
                                               group.projectId, overlap,
                                               overlapStart, overlapEnd)
                             /\ clock' = n4
                        ELSE /\ n3 = n2 /\ n4 = n2
                             /\ pairMap' = pairMap
                             /\ clock' = n2
    /\ cur' = NextPair(projectGroups, cur[1], cur[2], cur[3])
    /\ UNCHANGED <<route, tz, rows, pc, index, records, errors, parsedData,
                   projectGroups, result, response>>

\* The loops are over: the pairs are sorted, the summary built and returned.
Summarize ==
    /\ pc = "pairs"
    /\ cur[1] > Len(projectGroups)
    /\ result' = [returned |-> TRUE, value |-> Analysis(parsedData, pairMap)]
    /\ pc' = "returned"
    /\ UNCHANGED <<route, tz, rows, index, records, errors, parsedData, clock,
                   projectGroups, pairMap, cur, call, response>>

\* res.json({ success: true, data: result })
Respond ==
    /\ pc = "returned"
    /\ route # "direct"
    /\ response' = [status |-> 200, success |-> TRUE, data |-> result.value]
    /\ pc' = "done"
    /\ UNCHANGED <<route, tz, rows, index, records, errors, parsedData, clock,
                   projectGroups, pairMap, cur, call, result>>

Next ==
    \/ ParseRow
    \/ Resolve
    \/ RejectEmpty
    \/ GroupRecords
    \/ PairStep
    \/ Summarize
    \/ Respond

Spec == Init /\ [][Next]_vars

-----------------------------------------------------------------------------
(* analyzeEmployees called on its own, with any list of valid records (the  *)
(* records of the accepted rows of RowPool), the empty list included.       *)

RecordPool(zone) ==
    {RowOutcome(row, 0, zone).record : row \in {r \in RowPool : RowOutcome(r, 0, zone).ok}}

InitAnalyze ==
    /\ pc = "parsed"
    /\ \E z \in TimeZones :
          \E data \in SeqsUpTo(RecordPool(z), MaxRows) : Start("direct", z, <<>>, data)

NextAnalyze ==
    \/ GroupRecords
    \/ PairStep
    \/ Summarize

SpecAnalyze == InitAnalyze /\ [][NextAnalyze]_vars

-----------------------------------------------------------------------------
(* Properties.                                                              *)

\* Midnight UTC of a calendar day, in hours.
UtcDay(y, m, d) == DaysFromCivil(y, m, d) * HoursPerDay

RECURSIVE SumOverlapDays(_)
SumOverlapDays(entries) ==
    IF entries = <<>> THEN 0
    ELSE Head(entries).overlapDays + SumOverlapDays(Tail(entries))

\* Every aggregate that exists: those of the pair map and those returned.
AllAggregates ==
    {pairMap[k] : k \in 1..Len(pairMap)}
        \cup (IF result.returned
              THEN {result.value.allPairs[k] : k \in 1..Len(result.value.allPairs)}
              ELSE {})

Entries(p) == {p.commonProjects[k] : k \in 1..Len(p.commonProjects)}

NoPairsText == "No employee pairs found that worked together"

\* C1: every PairAggregate in the pair map or in allPairs has emp1 < emp2
\* strictly; none has emp1 = emp2.
C1_PairsJoinDistinctEmployees ==
    \A p \in AllAggregates : p.emp1 < p.emp2

\* C2: one as-of moment per invocation: two ongoing records get the same
\* effective end, and every detail entry's overlapDays is the inclusive day
\* count of the interval [dateFrom, dateTo] the entry records.
C2_SingleAsOfMoment ==
    /\ (call.made /\ call.end1 = Null /\ call.end2 = Null)
          => call.actualEnd1 = call.actualEnd2
    /\ \A p \in AllAggregates : \A e \in Entries(p) :
          e.overlapDays = CeilDiv(e.dateTo - e.dateFrom, HoursPerDay) + 1

\* C3: at every step the totalDays of every aggregate is the sum of the
\* overlapDays of its commonProjects entries; for the sample batch the top
\* pair is (143, 218) and its total is that sum.
C3_TotalDaysIsSumOfEntries ==
    /\ \A p \in AllAggregates : p.totalDays = SumOverlapDays(p.commonProjects)
    /\ (route = "sample" /\ result.returned) =>
          LET top == result.value.allPairs[1]
          IN  /\ top.emp1 = 143 /\ top.emp2 = 218
              /\ result.value.topPair.emp1 = 143 /\ result.value.topPair.emp2 = 218
              /\ result.value.topPair.totalDays = SumOverlapDays(top.commonProjects)

\* The sample batch analysed: (143, 218) leads with 423 + 1 + 309 = 733 days.
C3_Witness ==
    /\ route = "sample" /\ result.returned
    /\ result.value.allPairs[1].totalDays = 733
    /\ Len(result.value.allPairs[1].commonProjects) = 3

\* C4: a pair whose later start is after its earlier effective end has
\* overlap 0 and leaves the pair map as it was; so every detail entry has
\* overlapDays >= 1 and every aggregate has totalDays >= 1 and at least one
\* entry.
C4_DisjointContributesNothing ==
    /\ [](\A p \in AllAggregates :
              /\ p.totalDays >= 1
              /\ p.commonProjects # <<>>
              /\ \A e \in Entries(p) : e.overlapDays >= 1)
    /\ [][(/\ pc = "pairs"
           /\ cur' # cur
           /\ Max(call'.start1, call'.start2) > Min(call'.actualEnd1, call'.actualEnd2))
             => (call'.overlap = 0 /\ pairMap' = pairMap)]_vars

\* Two records of one project that do not intersect were compared while the
\* pair map already held an aggregate.
C4_Witness ==
    /\ call.made
    /\ Max(call.start1, call.start2) > Min(call.actualEnd1, call.actualEnd2)
    /\ call.overlap = 0
    /\ pairMap # <<>>

\* C5: with both ends present and whole-day bounds, intersecting intervals
\* overlap by (min end - max start) in days plus 1; sharing only a boundary
\* day gives 1, as for [2013-11-01, 2014-01-05] and [2012-09-05, 2013-11-01];
\* the result does not depend on the order of the two intervals.
C5_InclusiveDayCount ==
    (/\ call.made
     /\ call.end1 # Null /\ call.end2 # Null
     /\ \A t \in {call.start1, call.start2, call.actualEnd1, call.actualEnd2} :
           t % HoursPerDay = 0)
    => LET overlapStart == Max(call.start1, call.start2)
           overlapEnd == Min(call.actualEnd1, call.actualEnd2)
       IN  /\ overlapStart <= overlapEnd
                => call.overlap = (overlapEnd - overlapStart) \div HoursPerDay + 1
           /\ overlapStart = overlapEnd => call.overlap = 1
           /\ (/\ call.start1 = UtcDay(2013, 11, 1) /\ call.actualEnd1 = UtcDay(2014, 1, 5)
               /\ call.start2 = UtcDay(2012, 9, 5) /\ call.actualEnd2 = UtcDay(2013, 11, 1))
                => call.overlap = 1
           /\ calculateOverlap(call.start2, call.actualEnd2, call.start1, call.actualEnd1)
                = call.overlap

\* The two intervals of the example were compared and overlap by one day.
C5_Witness ==
    /\ call.made
    /\ call.start1 = UtcDay(2013, 11, 1) /\ call.end1 = DateOf(UtcDay(2014, 1, 5))
    /\ call.start2 = UtcDay(2012, 9, 5) /\ call.end2 = DateOf(UtcDay(2013, 11, 1))
    /\ call.overlap = 1

\* C6: allPairs is ordered by totalDays, largest first; when it is not empty
\* the headline names allPairs[0], whose totalDays is the largest of all
\* pairs found.
C6_RankedByTotalDays ==
    result.returned =>
        LET allPairs == result.value.allPairs
            topPair == result.value.topPair
        IN  /\ \A i \in 1..Len(allPairs) : \A j \in 1..Len(allPairs) :
                  i < j => allPairs[i].totalDays >= allPairs[j].totalDays
            /\ Len(allPairs) = Len(pairMap)
            /\ Len(allPairs) > 0 =>
                  /\ topPair.text # NoPairsText
                  /\ topPair.emp1 = allPairs[1].emp1
                  /\ topPair.emp2 = allPairs[1].emp2
                  /\ topPair.totalDays = allPairs[1].totalDays
                  /\ \A k \in 1..Len(pairMap) :
                        pairMap[k].totalDays <= allPairs[1].totalDays

\* A result whose ranking differs from the order the pairs were found in.
C6_Witness ==
    /\ result.returned
    /\ Len(result.value.allPairs) >= 2
    /\ result.value.allPairs # pairMap
    /\ result.value.allPairs[1].totalDays > result.value.allPairs[2].totalDays

\* C7: analyzeEmployees on the empty list has no pair to visit and returns
\* zero counts, an empty allPairs and the 'no pairs found' headline; the
\* headline is 'no pairs found' exactly when allPairs is empty.
C7_EmptyInputYieldsEmptyResult ==
    /\ (parsedData = <<>> /\ pc = "pairs") => cur[1] > Len(projectGroups)
    /\ (parsedData = <<>> /\ result.returned) =>
          /\ result.value.summary =
                [totalRecords |-> 0, uniqueEmployees |-> 0,
                 uniqueProjects |-> 0, employeePairs |-> 0]
          /\ result.value.allPairs = <<>>
          /\ result.value.topPair.text = NoPairsText
    /\ result.returned =>
          (result.value.topPair.text = NoPairsText <=> result.value.allPairs = <<>>)

\* analyzeEmployees returned for the empty list.
C7_Witness ==
    /\ route = "direct"
    /\ parsedData = <<>>
    /\ result.returned
    /\ result.value.summary.totalRecords = 0

DayThirtyOneApril == <<"3", "1", "/", "0", "4", "/", "2", "0", "2", "0">>

\* C8: parseFlexibleDate("31/04/2020") is a parse failure, so a row whose
\* start date is that text is rejected and no rolled-over date is stored.
C8_ThirtyFirstOfAprilFails ==
    \A k \in 1..index :
        Get(rows[k], "DateFrom") = DayThirtyOneApril =>
            /\ parseFlexibleDate(DayThirtyOneApril, tz) = Null
            /\ \E m \in 1..Len(errors) : errors[m].row = k

\* C9: after every row the parser has taken, records + errors = rows
\* processed; each rejected row has exactly one error carrying its 1-based
\* number; a row is accepted or rejected by its own content alone; the records
\* keep the row order.  (Stated while the parser runs: nothing changes its
\* records, errors or index afterwards.)
C9_RowsAreIndependent ==
    LET rejected == {errors[m].row : m \in 1..Len(errors)}
        accepted == (1..index) \ rejected
        nth(m) == CHOOSE a \in accepted : Cardinality({b \in accepted : b <= a}) = m
    IN  pc = "parse" =>
        /\ Len(records) + Len(errors) = index
        /\ rejected \subseteq 1..index
        /\ Cardinality(rejected) = Len(errors)
        /\ \A m \in 1..Len(errors) : \A n \in 1..Len(errors) :
              m < n => errors[m].row < errors[n].row
        /\ \A a \in 1..index : \A b \in 1..index :
              rows[a] = rows[b] => (a \in rejected <=> b \in rejected)
        /\ \A a \in 1..index : a \in accepted <=> RowOutcome(rows[a], a - 1, tz).ok
        /\ \A m \in 1..Len(records) :
              records[m] = RowOutcome(rows[nth(m)], nth(m) - 1, tz).record

\* A batch fully parsed in which a rejected row stands between two accepted
\* ones and a row after a rejected one is accepted.
C9_Witness ==
    /\ pc = "parse" /\ index = Len(rows) /\ index = 3
    /\ Len(errors) = 1 /\ errors[1].row = 2
    /\ Len(records) = 2

\* C10: the errors collected while parsing reach the caller: the errors list
\* of the AnalysisResult has one entry per rejected row.
C10_ErrorsReachTheCaller ==
    result.returned =>
        /\ Len(result.value.errors) = Len(errors)
        /\ (errors # <<>> => result.value.errors # <<>>)

\* The id texts and date texts the callback reads from a row.
EmpIdText(row) == Or3(Get(row, "EmpID"), Get(row, "empId"), Get(row, "EmployeeID"))
ProjectIdText(row) == Or3(Get(row, "ProjectID"), Get(row, "projectId"), Get(row, "ProjectId"))
StartText(row) == Or3(Get(row, "DateFrom"), Get(row, "dateFrom"), Get(row, "StartDate"))
EndText(row) == Or3(Get(row, "DateTo"), Get(row, "dateTo"), Get(row, "EndDate"))

\* Text that is wholly a positive integer: digits only, value at least 1.
IsPositiveIntegerText(text) ==
    /\ IsText(text)
    /\ text # <<>>
    /\ AllDigits(text)
    /\ DecimalValue(text) >= 1

RejectedRows == {errors[m].row : m \in 1..Len(errors)}

\* C11: every accepted record has a positive employeeId and projectId; a row
\* whose employee id or project id text is zero, negative or not wholly an
\* integer is rejected with the 'invalid employee id or project id' reason.
C11_IdsArePositiveIntegers ==
    /\ \A m \in 1..Len(records) :
          records[m].empId >= 1 /\ records[m].projectId >= 1
    /\ \A k \in 1..index :
          (~IsPositiveIntegerText(EmpIdText(rows[k]))
              \/ ~IsPositiveIntegerText(ProjectIdText(rows[k])))
          => \E m \in 1..Len(errors) :
                /\ errors[m].row = k
                /\ errors[m].message = "Invalid employee ID or project ID"

\* The project ids of data, each once, in the order of first appearance.
RECURSIVE FirstSeenProjects(_, _)
FirstSeenProjects(data, seen) ==
    IF data = <<>> THEN seen
    ELSE IF \E k \in 1..Len(seen) : seen[k] = Head(data).projectId
         THEN FirstSeenProjects(Tail(data), seen)
         ELSE FirstSeenProjects(Tail(data), Append(seen, Head(data).projectId))

\* C12: the project groups stand in first-seen project order and are taken
\* one after another; from one step to the next no aggregate is removed or
\* moved, each one is either unchanged or has gained one detail entry (of the
\* group being processed) whose overlapDays, strictly positive, was added to
\* its totalDays.
C12_AggregatesOnlyGrow ==
    /\ [](pc \in {"pairs", "returned", "done"} =>
            [k \in 1..Len(projectGroups) |-> projectGroups[k].projectId]
                = FirstSeenProjects(parsedData, <<>>))
    /\ [][/\ (pc = "pairs" /\ pc' = "pairs") => cur'[1] >= cur[1]
          /\ Len(pairMap') >= Len(pairMap)
          /\ \A k \in 1..Len(pairMap) :
                /\ pairMap'[k].key = pairMap[k].key
                /\ pairMap'[k].emp1 = pairMap[k].emp1
                /\ pairMap'[k].emp2 = pairMap[k].emp2
                /\ \/ pairMap'[k] = pairMap[k]
                   \/ /\ Len(pairMap'[k].commonProjects)
                            = Len(pairMap[k].commonProjects) + 1
                      /\ SubSeq(pairMap'[k].commonProjects, 1,
                                Len(pairMap[k].commonProjects))
                            = pairMap[k].commonProjects
                      /\ LET added == pairMap'[k].commonProjects[
                                          Len(pairMap'[k].commonProjects)]
                         IN  /\ added.overlapDays > 0
                             /\ added.projectId = projectGroups[cur[1]].projectId
                             /\ pairMap'[k].totalDays
                                   = pairMap[k].totalDays + added.overlapDays]_vars

\* While the groups are being processed, an aggregate made in one project
\* group has grown in a later one, beside another aggregate.
C12_Witness ==
    /\ pc = "pairs"
    /\ Len(pairMap) >= 2
    /\ \E k \in 1..Len(pairMap) :
          /\ Len(pairMap[k].commonProjects) >= 2
          /\ pairMap[k].commonProjects[1].projectId
                # pairMap[k].commonProjects[Len(pairMap[k].commonProjects)].projectId

\* Date text that names no date: empty, the null word, or unrecognizable.
NoDateTexts ==
    {<<>>, <<"N", "U", "L", "L">>, <<"n", "u", "l", "l">>,
     <<"n", "o", "t", "-", "a", "-", "d", "a", "t", "e">>}

\* Start date text that names a calendar date: YYYY-MM-DD, or one of the
\* other forms among the inputs (20140105, 13.01.2014, 01/05/2014).
NamesADate(text) ==
    \/ IsIsoDate(text)
    \/ text \in {<<"2", "0", "1", "4", "0", "1", "0", "5">>,
                 <<"1", "3", ".", "0", "1", ".", "2", "0", "1", "4">>,
                 <<"0", "1", "/", "0", "5", "/", "2", "0", "1", "4">>}

\* The record made from accepted row k: records keep the row order.
RecordOfRow(k) == records[Cardinality({a \in (1..k) \ RejectedRows : TRUE})]

\* C13: a row with numeric ids and a start date that names a date is accepted
\* whatever its end date text is, and an empty, "null" or unrecognizable end
\* date gives endDate null; a row with numeric ids whose start date is empty,
\* "null" or unrecognizable is rejected; every record has a start date.
C13_EndDateNeverRejects ==
    pc = "parse" =>
        /\ \A m \in 1..Len(records) : records[m].dateFrom.kind = "date"
        /\ \A k \in 1..index :
              LET row == rows[k]
                  idsValid == ~ParseInt(EmpIdText(row)).nan
                                 /\ ~ParseInt(ProjectIdText(row)).nan
              IN  /\ (idsValid /\ NamesADate(StartText(row))) =>
                        /\ k \notin RejectedRows
                        /\ EndText(row) \in NoDateTexts => RecordOfRow(k).dateTo = Null
                        /\ EndText(row) \notin NoDateTexts
                              => RecordOfRow(k).dateTo.kind = "date"
                  /\ (idsValid /\ StartText(row) \in NoDateTexts) =>
                        \E m \in 1..Len(errors) :
                            /\ errors[m].row = k
                            /\ errors[m].message = "Invalid date format for DateFrom"
                            /\ errors[m].text = StartText(row)

\* An upload parsed to the end in which rows with a "null" and with an
\* unrecognizable end date were accepted as ongoing and rows with a "NULL"
\* and with an unrecognizable start date were rejected.
C13_Witness ==
    /\ pc = "parse" /\ index = Len(rows) /\ index = 5
    /\ RejectedRows = {3, 4}
    /\ EndText(rows[2]) = <<"n", "u", "l", "l">> /\ records[2].dateTo = Null
    /\ EndText(rows[5]) = <<"n", "o", "t", "-", "a", "-", "d", "a", "t", "e">>
    /\ records[3].dateTo = Null
    /\ StartText(rows[3]) = <<"N", "U", "L", "L">>
    /\ StartText(rows[4]) = <<"n", "o", "t", "-", "a", "-", "d", "a", "t", "e">>

====
